---- MODULE Spec2Model ----
(***************************************************************************)
(* Model of ani-scrape: the release ledger (app/core/database.py,          *)
(* app/core/models.py), the poll cycle (app/services/sync.py,              *)
(* app/services/tracker.py), the Discord notifier                          *)
(* (app/services/discord_notifier.py) and the task that runs a cycle       *)
(* (app/services/scheduler.py).                                            *)
(*                                                                         *)
(* Counts and release numbers are Python floats.  The model holds every    *)
(* such value in half units: the integer c stands for the float c / 2, so  *)
(* 3 is 1.5 and 4 is 2.0.  float(n) of a Python int n is 2 * n and int(x)  *)
(* of a non-negative float x is x \div 2.                                  *)
(***************************************************************************)
EXTENDS Integers, Sequences, FiniteSets, TLC

\* ------------------------------------------------------------------ bounds
MaxMedia == 2
MaxCount == 4
MaxReleaseId == 2
MaxCycles == 3
\* elapsed times are told apart up to MaxElapsed seconds
MaxElapsed == 70
\* the clock of the ledger ticks up to MaxNow
MaxNow == 1
\* the longest sequence of releases handed to the notifier alone
MaxReleases == 21
MaxDepth == 4

\* --------------------------------------------------------------- constants
batch_size == 10
max_retries == 3
max_instances == 1
cooldown_seconds == 60
buffer_seconds == 30

None == -1

MediaIds == 1 .. MaxMedia
\* the two users of the ledger: the interactive path and the scheduled cycle
Callers == {"interactive", "scheduled"}
\* usable (truthy) counts, in half units
Counts == 1 .. MaxCount
\* whole installment numbers
Numbers == 1 .. (MaxCount \div 2)

VARIABLES
    \* ---- table media (models.py Media); a row is keyed by its id, which the
    \* model identifies with its unique anilist_id
    tracked,              \* ids of the rows of table media
    user_progress,        \* Media.user_progress per row, None when unset
    last_checked_count,   \* Media.last_checked_count per row, None when unset
    \* ---- table releases (models.py Release)
    releases,             \* set of rows [id, media_id, number, notified, notified_at]
    next_release_id,      \* AUTOINCREMENT sequence of releases.id
    \* ---- callers of DatabaseClient.add_release (one per task or process)
    pending,              \* per <<media_id, number>>: the add_release calls
                          \* between their select and their commit
    \* ---- the task running one cycle (scheduler.run_scrape_job)
    pc,                   \* position of the cycle
    cycles,               \* cycles started so far
    webhook_url,          \* config.discord.webhook_url is set
    media_list,           \* check_for_updates: rows read at the start
    i,                    \* check_for_updates: index of the next row
    notifications,        \* check_for_updates: queued announcements
    updates_to_make,      \* check_for_updates: queued count updates
    total_count,          \* check_for_updates: the count fetched for the row
    \* ---- the delivery sink and the history the properties speak about
    sent,                 \* per item and number: successful deliveries (0..2)
    failed_batch,         \* announcements of the batches of this cycle whose send failed
    baseline,             \* first count stored for the item
    recording,            \* the history below is being recorded
    last_fetched,         \* last usable count fetched for the item; Decreased
                          \* once a usable count was below the one before
    last_op,              \* how the last call of the ledger ended
    utcnow,               \* datetime.utcnow(), in ticks of the clock
    posts,                \* the webhook: the batches posted since the cycle
                          \* started, each with the outcome of its post
    cancelled,            \* the task of the last cycle was cancelled
    lists,                \* cleanup_finished_series: the user's lists as fetched
                          \* (the ids of their entries, and whether both queries
                          \* gave data), NoLists outside of it
    \* ---- one request to the catalog (AniListClient._query)
    query,                \* pos: position of the outermost _query and its nested
                          \* calls; caller: the method that called _query;
                          \* depth: nested calls in progress, MaxDepth standing
                          \* for "that many or more"; status: response.status
                          \* of the last response, 0 before it; data: what
                          \* _query returns to its caller
    \* ---- the run coordinator (scheduler.start_scheduler); times are seconds
    instances,            \* running instances of the job (APScheduler)
    trigger,              \* what became of the last firing of the interval timer
    job,                  \* position of run_scrape_job_with_cooldown
    time_since_last,      \* time.time() - last_job_end_time, MaxElapsed standing for
                          \* "that or more"; None while last_job_end_time is None
    wait_time,            \* what is left of asyncio.sleep(wait_time)
    timeout_left,         \* what is left of wait_for(scrape_task, timeout_seconds)
    scrape_task,          \* position of run_scrape_job
    retry_count,          \* run_scrape_job: retry_count of the running attempt
    retry_left,           \* what is left of asyncio.sleep(retry_delay)
    caught,               \* an exception of this attempt was caught inside
                          \* sync_from_anilist or check_for_updates
    no_engine,            \* an attempt of this task failed with a db_client
                          \* that had not created its engine
    result                \* run_scrape_job: "False" once it gave up after the
                          \* last retry, "None" otherwise

ledger_vars == <<tracked, user_progress, last_checked_count, releases, next_release_id>>
call_vars == <<pending>>
cycle_vars == <<pc, cycles, webhook_url, media_list, i, notifications, updates_to_make,
                total_count>>
history_vars == <<sent, failed_batch, baseline, recording, last_fetched>>
coordinator_vars == <<instances, trigger, job, time_since_last, wait_time, timeout_left,
                      scrape_task, retry_count, retry_left, caught, no_engine,
                      result>>
query_vars == <<query>>
program_vars == <<ledger_vars, call_vars, cycle_vars, history_vars, last_op, utcnow,
                  posts, cancelled, query_vars, lists>>
vars == <<program_vars, coordinator_vars>>

\* ------------------------------------------------------------------ helpers
Min(a, b) == IF a < b THEN a ELSE b

\* Python int() of a non-negative float
int(x) == x \div 2

\* Python float() of an int
float(n) == 2 * n

\* Python range(a, b) as a sequence
range(a, b) == [k \in 1 .. (IF b > a THEN b - a ELSE 0) |-> a + k - 1]

\* Python truthiness of an Optional[float]: None and 0 are falsy
truthy(x) == x # None /\ x # 0

\* last_op: the outcome of the call of the ledger that ended last.  op is
\* "none" (not an add_release), "select" (the select found no row,
\* the call awaits its commit), "returned" (add_release returned the
\* row id with wasCreated = created) or "raised" (add_release ended
\* in an exception); second tells that the call came right after a call that
\* created the same pair.
NoOp ==
    [op |-> "none", media_id |-> 0, number |-> 0, id |-> 0,
     created |-> FALSE, second |-> FALSE]

Selecting(media_id, number) ==
    [NoOp EXCEPT !.op = "select", !.media_id = media_id, !.number = number]

Raised(media_id, number) ==
    [NoOp EXCEPT !.op = "raised", !.media_id = media_id, !.number = number]

Returned(media_id, number, id, created) ==
    [op |-> "returned", media_id |-> media_id, number |-> number,
     id |-> id, created |-> created,
     second |-> (/\ ~ created
                 /\ last_op.op = "returned"
                 /\ last_op.created
                 /\ last_op.media_id = media_id
                 /\ last_op.number = number)]

\* The add_release calls in progress: coroutines of the one event loop, told
\* apart only by their arguments; there are at most as many as callers.
in_progress == {pr \in DOMAIN pending : pending[pr] > 0}

calls ==
    Cardinality({c \in in_progress \X (1 .. Cardinality(Callers)) : pending[c[1]] >= c[2]})

\* ----------------------------------------------------------- table releases
\* Release(media_id=..., number=...): notified defaults to False, notified_at
\* is nullable
Release(id, media_id, number) ==
    [id |-> id, media_id |-> media_id, number |-> number, notified |-> FALSE,
     notified_at |-> None]

\* UniqueConstraint('media_id', 'number', name='uq_media_release'): TRUE when
\* the table accepts a row with this pair
uq_media_release_dropped(rows, media_id, number) == TRUE

uq_media_release(rows, media_id, number) ==
    ~ \E r \in rows : r.media_id = media_id /\ r.number = number

\* select(Release).where(and_(Release.media_id == media_id, Release.number == number))
select_release_by_id(media_id, number) ==
    {r \in releases : r.id = media_id /\ r.number = number}

select_release(media_id, number) ==
    {r \in releases : r.media_id = media_id /\ r.number = number}

\* update(Release).where(Release.id == release_id).values(notified=True, ...)
mark_row_toggled(r) == [r EXCEPT !.notified = ~ r.notified]

mark_row(r) == [r EXCEPT !.notified = TRUE, !.notified_at = utcnow]

\* get_unnotified_releases: the rows with notified = False
get_unnotified_releases == {r \in releases : ~ r.notified}

\* -------------------------------------------------- DatabaseClient.add_release
\* First half of add_release, up to the await of session.commit(): the select,
\* and the early return of the existing row.  scalar_one_or_none() raises when
\* the select yields more than one row.
AddReleaseSelect(media_id, number) ==
    /\ calls < Cardinality(Callers)
    /\ media_id \in tracked
    /\ LET existing == select_release(media_id, number)
       IN  IF Cardinality(existing) > 1
           THEN /\ last_op' = Raised(media_id, number)
                /\ UNCHANGED pending
           ELSE IF existing # {}
           THEN /\ last_op' = Returned(media_id, number,
                                       (CHOOSE r \in existing : TRUE).id, FALSE)
                /\ UNCHANGED pending
           ELSE /\ pending' = [pending EXCEPT ![<<media_id, number>>] = @ + 1]
                /\ last_op' = Selecting(media_id, number)
    /\ UNCHANGED <<ledger_vars, cycle_vars, history_vars>>
    /\ UNCHANGED <<coordinator_vars, query_vars, lists, cancelled, utcnow, posts>>

\* Second half of add_release: session.add(release), commit, refresh.  The
\* commit raises IntegrityError when uq_media_release rejects the row; SQLite
\* does not enforce the foreign key on media_id unless the connection enables
\* it, which this code never does.
AddReleaseCommit(media_id, number) ==
    /\ <<media_id, number>> \in in_progress
    /\ IF uq_media_release(releases, media_id, number)
       THEN /\ next_release_id <= MaxReleaseId
            /\ releases' = releases \cup {Release(next_release_id, media_id, number)}
            /\ next_release_id' = next_release_id + 1
            /\ last_op' = Returned(media_id, number, next_release_id, TRUE)
       ELSE /\ last_op' = Raised(media_id, number)
            /\ UNCHANGED <<releases, next_release_id>>
    /\ pending' = [pending EXCEPT ![<<media_id, number>>] = @ - 1]
    /\ UNCHANGED <<tracked, user_progress, last_checked_count, cycle_vars, history_vars>>
    /\ UNCHANGED <<coordinator_vars, query_vars, lists, cancelled, utcnow, posts>>

\* ---------------------------------------------- DatabaseClient.mark_as_notified
\* One UPDATE by primary key, then commit; an id without a row updates nothing.
mark_as_notified(rows, release_id) ==
    {IF r.id = release_id THEN mark_row(r) ELSE r : r \in rows}

MarkAsNotified(release_id) ==
    /\ releases' = mark_as_notified(releases, release_id)
    /\ last_op' = NoOp
    /\ UNCHANGED <<tracked, user_progress, last_checked_count, next_release_id,
                   call_vars, cycle_vars, history_vars>>
    /\ UNCHANGED <<coordinator_vars, query_vars, lists, cancelled, utcnow, posts>>

\* -------------------------------------------------- DatabaseClient.delete_media
\* relationship(..., cascade="all, delete-orphan"): the releases of the row go
\* with it
cascade(rows, ms) == {r \in rows : r.media_id \notin ms}

\* what the history knows about an item is about the row; a deleted row takes
\* it along
forget(ms) ==
    /\ sent' = [m \in MediaIds |-> IF m \in ms THEN [n \in Numbers |-> 0] ELSE sent[m]]
    /\ failed_batch' = {d \in failed_batch : d[1] \notin ms}
    /\ baseline' = [m \in MediaIds |-> IF m \in ms THEN None ELSE baseline[m]]
    /\ last_fetched' = [m \in MediaIds |-> IF m \in ms THEN None ELSE last_fetched[m]]
    /\ UNCHANGED recording

delete_media(ms) ==
    /\ tracked' = tracked \ ms
    /\ user_progress' = [m \in MediaIds |-> IF m \in ms THEN None ELSE user_progress[m]]
    /\ last_checked_count' = [m \in MediaIds |-> IF m \in ms THEN None ELSE last_checked_count[m]]
    /\ releases' = cascade(releases, ms)
    /\ forget(ms)

DeleteMedia(anilist_id) ==
    /\ anilist_id \in tracked
    /\ delete_media({anilist_id})
    /\ last_op' = NoOp
    /\ UNCHANGED <<next_release_id, call_vars, cycle_vars>>
    /\ UNCHANGED <<coordinator_vars, query_vars, lists, cancelled, utcnow, posts>>

\* ------------------------------------------- DatabaseClient.add_or_update_media
\* main.py subscribe_to_media: a new row when the anilist_id has none (its
\* progress and count unset), else only the titles and the timestamp change
SubscribeToMedia(anilist_id) ==
    /\ anilist_id \notin tracked
    /\ tracked' = tracked \cup {anilist_id}
    /\ last_op' = NoOp
    /\ UNCHANGED <<user_progress, last_checked_count, releases, next_release_id,
                   call_vars, cycle_vars, history_vars>>
    /\ UNCHANGED <<coordinator_vars, query_vars, lists, cancelled, utcnow, posts>>

\* ------------------------------------------------ scheduler.run_scrape_job
FetchValues == {None} \cup (0 .. MaxCount)

\* fetched(before, count): the value of last_fetched after the usable count
\* was fetched
Decreased == 0 - 2

fetched(before, count) ==
    IF before = Decreased \/ (before # None /\ count < before)
    THEN Decreased ELSE count

\* the locals of a cycle are gone when its task returns or is cancelled
Finish ==
    /\ pc' = "idle"
    /\ media_list' = <<>>
    /\ i' = 0
    /\ notifications' = <<>>
    /\ updates_to_make' = <<>>
    /\ total_count' = None

StartCycle ==
    /\ pc = "idle"
    /\ cycles < MaxCycles
    /\ pc' = "sync"
    /\ cycles' = cycles + 1
    /\ failed_batch' = {}
    /\ posts' = <<>>
    /\ cancelled' = FALSE
    /\ UNCHANGED <<ledger_vars, call_vars, webhook_url, media_list, i, notifications,
                   updates_to_make, total_count, sent, baseline, recording,
                   last_fetched, last_op>>
    /\ UNCHANGED <<coordinator_vars, query_vars, lists, utcnow>>

\* ------------------------------------------------ AniListSync.sync_from_anilist
\* user_progress=float(user_progress) if user_progress else None
progress_value(progress) == IF progress # 0 THEN float(progress) ELSE None

\* The entries of the user's lists are upserted one by one; a list whose query
\* failed is empty (AniListClient._query returns {}).  The call passes
\* user_progress, which add_or_update_media stores in the row like the titles;
\* a new row has no last_checked_count.
SyncFromAnilist ==
    /\ pc = "sync"
    /\ \E listed \in SUBSET MediaIds :
       \E progress \in [listed -> 0 .. 1] :
          /\ tracked' = tracked \cup listed
          /\ user_progress' = [m \in MediaIds |->
                IF m \in listed THEN progress_value(progress[m]) ELSE user_progress[m]]
    /\ pc' = "cleanup"
    /\ last_op' = NoOp
    /\ UNCHANGED <<last_checked_count, releases, next_release_id, call_vars, cycles,
                   webhook_url, media_list, i, notifications, updates_to_make,
                   total_count, history_vars>>
    /\ UNCHANGED <<coordinator_vars, query_vars, lists, cancelled, utcnow, posts>>

\* except Exception: logged, cleanup_finished_series is not reached
SyncFails ==
    /\ pc = "sync"
    /\ pc' = "check_start"
    /\ UNCHANGED <<ledger_vars, call_vars, cycles, webhook_url, media_list, i,
                   notifications, updates_to_make, total_count, history_vars, last_op>>
    /\ UNCHANGED <<coordinator_vars, query_vars, lists, cancelled, utcnow, posts>>

\* ------------------------------------------ AniListSync.cleanup_finished_series
\* get_user_anime_list, get_user_manga_list: the ids of the entries of the
\* list in the data; none when _query returned {} (a status other than 200, a
\* GraphQL error)
listed_ids(ok, ids) == IF ok THEN ids ELSE {}

\* no lists fetched
NoLists == [fetched |-> TRUE, ids |-> {}]

\* lines 70-73: the two lists are fetched again, current_ids is the set of the
\* ids of the entries of anime_list + manga_list: ids stands for the entries of
\* the lists whose query gave data, and nothing is left of it when neither did
CleanupFetchLists ==
    /\ pc = "cleanup"
    /\ \E anime_ok, manga_ok \in BOOLEAN :
       \E ids \in SUBSET MediaIds :
          lists' = [fetched |-> anime_ok /\ manga_ok,
                    ids |-> listed_ids(anime_ok \/ manga_ok, ids)]
    /\ pc' = "cleanup_fetched"
    /\ UNCHANGED <<ledger_vars, call_vars, cycles, webhook_url, media_list, i,
                   notifications, updates_to_make, total_count, history_vars, last_op>>
    /\ UNCHANGED <<coordinator_vars, query_vars, cancelled, utcnow, posts>>

\* lines 75-98: every tracked row whose anilist_id is not in current_ids is
\* deleted.
CleanupFinishedSeries ==
    /\ pc = "cleanup_fetched"
    /\ LET current_ids == lists.ids
           to_remove == {m \in tracked : m \notin current_ids}
       IN  delete_media(to_remove)
    /\ lists' = NoLists
    /\ pc' = "check_start"
    /\ last_op' = NoOp
    /\ UNCHANGED <<next_release_id, call_vars, cycles, webhook_url, media_list, i,
                   notifications, updates_to_make, total_count>>
    /\ UNCHANGED <<coordinator_vars, query_vars, cancelled, utcnow, posts>>

\* ------------------------------------------- ReleaseTracker.check_for_updates
\* get_all_tracked_media: the rows, ordered (by title; the model orders by id)
RECURSIVE ordered(_)
ordered(ms) ==
    IF ms = {} THEN <<>>
    ELSE LET m == CHOOSE x \in ms : \A y \in ms : x <= y
         IN  <<[id |-> m, user_progress |-> user_progress[m],
                last_checked_count |-> last_checked_count[m]]>> \o ordered(ms \ {m})

get_all_tracked_media == ordered(tracked)

\* lines 23-32: read the rows; return when there are none
CheckStart ==
    /\ pc = "check_start"
    /\ IF get_all_tracked_media = <<>>
       THEN Finish
       ELSE /\ pc' = "check"
            /\ media_list' = get_all_tracked_media
            /\ i' = 1
            /\ notifications' = <<>>
            /\ updates_to_make' = <<>>
            /\ total_count' = None
    /\ UNCHANGED <<ledger_vars, call_vars, cycles, webhook_url, history_vars, last_op>>
    /\ UNCHANGED <<coordinator_vars, query_vars, lists, cancelled, utcnow, posts>>

\* lines 128-137: one announcement per number of range(int(last_known) + 1,
\* int(total_count) + 1)
new_numbers_rounded(last_known, count) ==
    range(int(last_known + 1) + 1, int(count) + 1)

new_numbers(last_known, count) ==
    range(int(last_known) + 1, int(count) + 1)

announcements_from_progress(media, count) ==
    LET ns == new_numbers(media.user_progress, count)
    IN  [k \in 1 .. Len(ns) |-> [number |-> float(ns[k]), media_id |-> media.id]]

announcements(media, count) ==
    LET ns == new_numbers(media.last_checked_count, count)
    IN  [k \in 1 .. Len(ns) |-> [number |-> float(ns[k]), media_id |-> media.id]]

\* lines 98-102: "if not total_count: continue"; None and 0 are no count
usable_always(count) == TRUE

usable(count) == truthy(count)

\* line 116: the fresh count exceeds the stored one
has_new_releases_or_changed(count, last_known) == count # last_known

has_new_releases_or_same(count, last_known) == count >= last_known

has_new_releases(count, last_known) == count > last_known

\* lines 98-102 and 141-143: "continue" after an item without a count, and the
\* end of the loop body after an item with one: the loop goes on with the next
\* row of media_list
next_item_unless_failed(k, count) ==
    IF truthy(count) THEN k + 1 ELSE Len(media_list) + 1

next_item(k, count) == k + 1

\* lines 36-40: "if not media.user_progress or media.user_progress == 0:
\* continue"
skipped_never(media) == FALSE

skipped(media) == ~ truthy(media.user_progress)

\* lines 34-143: one pass of the loop over media_list; fetch is what the
\* catalog clients gave (None when they failed or had nothing).  A row without
\* user progress is skipped before total_count is assigned.
CheckMedia ==
    /\ pc = "check"
    /\ i <= Len(media_list)
    /\ LET media == media_list[i]
       IN  IF skipped(media)
           THEN /\ i' = i + 1
                /\ UNCHANGED <<notifications, updates_to_make, total_count, last_fetched>>
           ELSE \E fetch \in FetchValues :
                /\ total_count' = fetch
                /\ i' = next_item(i, fetch)
                /\ IF ~ usable(fetch)
                   THEN UNCHANGED <<notifications, updates_to_make, last_fetched>>
                   ELSE /\ last_fetched' = [last_fetched EXCEPT ![media.id] =
                                                 IF recording THEN fetched(@, fetch) ELSE @]
                        /\ IF media.last_checked_count = None
                           THEN /\ updates_to_make' =
                                      Append(updates_to_make, <<media.id, fetch>>)
                                /\ UNCHANGED notifications
                           ELSE IF has_new_releases(fetch, media.last_checked_count)
                           THEN /\ notifications' =
                                      notifications \o announcements(media, fetch)
                                /\ updates_to_make' =
                                      Append(updates_to_make, <<media.id, fetch>>)
                           ELSE UNCHANGED <<notifications, updates_to_make>>
    /\ UNCHANGED <<ledger_vars, call_vars, pc, cycles, webhook_url, media_list,
                   sent, failed_batch, baseline, recording, last_op>>
    /\ UNCHANGED <<coordinator_vars, query_vars, lists, cancelled, utcnow, posts>>

\* the loop is over: on to lines 145-152
CheckDone ==
    /\ pc = "check"
    /\ i > Len(media_list)
    /\ pc' = "update"
    /\ UNCHANGED <<ledger_vars, call_vars, cycles, webhook_url, media_list, i,
                   notifications, updates_to_make, total_count, history_vars, last_op>>
    /\ UNCHANGED <<coordinator_vars, query_vars, lists, cancelled, utcnow, posts>>

\* DatabaseClient.update_media_count: sets the last observed count of the row
update_media_count(media_id, new_count) ==
    /\ last_checked_count' =
          [last_checked_count EXCEPT ![media_id] = IF media_id \in tracked THEN new_count ELSE @]
    /\ baseline' =
          [baseline EXCEPT ![media_id] =
              IF recording /\ media_id \in tracked /\ @ = None THEN new_count ELSE @]

\* lines 146-152: one pass of the loop over updates_to_make; an exception of
\* the update is logged and the loop goes on
UpdateCount ==
    /\ pc = "update"
    /\ updates_to_make # <<>>
    /\ updates_to_make' = Tail(updates_to_make)
    /\ \/ /\ update_media_count(Head(updates_to_make)[1], Head(updates_to_make)[2])
          /\ last_op' = NoOp
       \/ UNCHANGED <<last_checked_count, baseline, last_op>>
    /\ UNCHANGED <<tracked, user_progress, releases, next_release_id, call_vars, pc,
                   cycles, webhook_url, media_list, i, notifications, total_count,
                   sent, failed_batch, recording, last_fetched>>
    /\ UNCHANGED <<coordinator_vars, query_vars, lists, cancelled, utcnow, posts>>

\* lines 155-166 and notify_new_releases lines 17-27: nothing queued, or no
\* webhook configured: the cycle is over; else the batches are sent
NotifyStart ==
    /\ pc = "update"
    /\ updates_to_make = <<>>
    /\ IF notifications = <<>> \/ ~ webhook_url
       THEN Finish
       ELSE /\ pc' = "notify"
            /\ i' = 0
            /\ UNCHANGED <<media_list, notifications, updates_to_make, total_count>>
    /\ UNCHANGED <<ledger_vars, call_vars, cycles, webhook_url, history_vars, last_op>>
    /\ UNCHANGED <<coordinator_vars, query_vars, lists, cancelled, utcnow, posts>>

\* ------------------------------------------ DiscordNotifier.notify_new_releases
\* batch = releases[i : i + batch_size]
batch_at_short(releases_, k) ==
    SubSeq(releases_, k + 1, Min(k + batch_size - 1, Len(releases_)))

batch_at(releases_, k) == SubSeq(releases_, k + 1, Min(k + batch_size, Len(releases_)))

delivered_to(batch, m, n) ==
    Cardinality({k \in 1 .. Len(batch) : batch[k].media_id = m /\ batch[k].number = float(n)})

\* _send_batch lines 64-79: a status other than 200 or 204 is logged as a
\* warning and an exception of the post is caught and logged; neither leaves
\* _send_batch as an exception
post_raises_on_failure(ok) == ~ ok

post_raises(ok) == FALSE

\* lines 30-36 with _send_batch: one batch is posted, with or without success;
\* the loop goes on to the next batch.  (An exception leaving
\* notify_new_releases would be caught at tracker.py 161 and end the dispatch.)
SendBatch ==
    /\ pc = "notify"
    /\ \E ok \in BOOLEAN :
          LET batch == batch_at(notifications, i)
          IN  /\ posts' = Append(posts, [batch |-> batch, ok |-> ok])
              /\ IF ok
                 THEN /\ sent' = [m \in MediaIds |-> [n \in Numbers |->
                                    IF recording
                                    THEN Min(2, sent[m][n] + delivered_to(batch, m, n))
                                    ELSE sent[m][n]]]
                      /\ UNCHANGED failed_batch
                 ELSE /\ failed_batch' =
                             IF recording
                             THEN failed_batch \cup {<<batch[k].media_id, int(batch[k].number)>> :
                                                        k \in 1 .. Len(batch)}
                             ELSE failed_batch
                      /\ UNCHANGED sent
              /\ IF ~ post_raises(ok) /\ i + batch_size < Len(notifications)
                 THEN /\ i' = i + batch_size
                      /\ UNCHANGED <<pc, media_list, notifications, updates_to_make,
                                     total_count>>
                 ELSE Finish
    /\ UNCHANGED <<ledger_vars, call_vars, cycles, webhook_url, baseline,
                   recording, last_fetched, last_op>>
    /\ UNCHANGED <<coordinator_vars, query_vars, lists, cancelled, utcnow>>

\* ------------------------------------------------------- AniListClient._query
QueryCallers == {"search", "get_media_by_id", "get_user_anime_list", "get_user_manga_list"}

\* no call of _query in progress
NoQuery == [pos |-> "idle", caller |-> "none", depth |-> 0, status |-> 0, data |-> "none"]

\* data = await self._query(query, variables): session.post is awaited
QueryCall ==
    /\ query.pos = "idle"
    /\ \E c \in QueryCallers :
          query' = [pos |-> "post", caller |-> c, depth |-> 1, status |-> 0,
                    data |-> "none"]
    /\ UNCHANGED <<ledger_vars, call_vars, cycle_vars, history_vars, last_op, utcnow,
                   posts, cancelled, lists, coordinator_vars>>

\* The catalog answers.  429: the warning is logged and asyncio.sleep(10)
\* awaited; another status than 200: the error is logged and {} returned; 200:
\* response.json() is awaited.
QueryResponds ==
    /\ query.pos = "post"
    /\ \E st \in {200, 429, 500} :
          IF st = 429
          THEN query' = [query EXCEPT !.status = st, !.pos = "rate_limited"]
          ELSE IF st # 200
          THEN query' = [query EXCEPT !.status = st, !.pos = "returned", !.data = "empty"]
          ELSE query' = [query EXCEPT !.status = st, !.pos = "json"]
    /\ UNCHANGED <<ledger_vars, call_vars, cycle_vars, history_vars, last_op, utcnow,
                   posts, cancelled, lists, coordinator_vars>>

\* session.post raises: no connection, or ClientTimeout(total=30) is over
QueryPostRaises ==
    /\ query.pos = "post"
    /\ query' = [query EXCEPT !.pos = "raised"]
    /\ UNCHANGED <<ledger_vars, call_vars, cycle_vars, history_vars, last_op, utcnow,
                   posts, cancelled, lists, coordinator_vars>>

\* asyncio.sleep(10) is over: the nested call posts the request again
QueryRetry ==
    /\ query.pos = "rate_limited"
    /\ query' = [query EXCEPT !.pos = "post", !.depth = Min(@ + 1, MaxDepth)]
    /\ UNCHANGED <<ledger_vars, call_vars, cycle_vars, history_vars, last_op, utcnow,
                   posts, cancelled, lists, coordinator_vars>>

\* data = await response.json(); if "errors" in data: ... return {}
QueryJson ==
    /\ query.pos = "json"
    /\ \E errors \in BOOLEAN :
          IF errors
          THEN query' = [query EXCEPT !.pos = "returned", !.data = "empty"]
          ELSE query' = [query EXCEPT !.pos = "pacing"]
    /\ UNCHANGED <<ledger_vars, call_vars, cycle_vars, history_vars, last_op, utcnow,
                   posts, cancelled, lists, coordinator_vars>>

\* await asyncio.sleep(0.5); return data.get("data", {})
QueryPaced ==
    /\ query.pos = "pacing"
    /\ \E d \in {"data", "empty"} :
          query' = [query EXCEPT !.pos = "returned", !.data = d]
    /\ UNCHANGED <<ledger_vars, call_vars, cycle_vars, history_vars, last_op, utcnow,
                   posts, cancelled, lists, coordinator_vars>>

\* every nested call has returned what the innermost one returned, or raised
\* what it raised: the caller goes on
QueryEnds ==
    /\ query.pos \in {"returned", "raised"}
    /\ query' = [query EXCEPT !.pos = "idle", !.depth = 0]
    /\ UNCHANGED <<ledger_vars, call_vars, cycle_vars, history_vars, last_op, utcnow,
                   posts, cancelled, lists, coordinator_vars>>

\* the steps of a call in progress
QueryStep ==
    \/ QueryResponds
    \/ QueryPostRaises
    \/ QueryRetry
    \/ QueryJson
    \/ QueryPaced
    \/ QueryEnds

QueryNext ==
    \/ QueryCall
    \/ QueryStep

\* ------------------------------------- scheduler.run_scrape_job_with_cooldown
\* The task of the cycle is suspended in an await (a catalog or list query, a
\* ledger call): in sync_from_anilist, cleanup_finished_series and the loops
\* of check_for_updates.  notify_new_releases makes no await (requests.post,
\* time.sleep) and the task returns after it.
suspended_or_sending ==
    \/ pc \in {"sync", "cleanup", "cleanup_fetched", "check_start", "notify"}
    \/ pc = "check" /\ i <= Len(media_list)
    \/ pc = "update" /\ updates_to_make # <<>>

suspended ==
    \/ pc \in {"sync", "cleanup", "cleanup_fetched", "check_start"}
    \/ pc = "check" /\ i <= Len(media_list)
    \/ pc = "update" /\ updates_to_make # <<>>

\* scrape_task.cancel(): CancelledError is raised at the await the task is
\* suspended in (a catalog or list query, a ledger call); no except clause of
\* the cycle catches it.  An update_media_count in flight has committed or not.
CancelCycle ==
    /\ suspended
    /\ cancelled' = TRUE
    /\ lists' = NoLists
    /\ \/ UNCHANGED <<last_checked_count, baseline, last_op>>
       \/ /\ pc = "update"
          /\ update_media_count(Head(updates_to_make)[1], Head(updates_to_make)[2])
          /\ last_op' = NoOp
    /\ Finish
    /\ UNCHANGED <<tracked, user_progress, releases, next_release_id, call_vars,
                   cycles, webhook_url, sent, failed_batch, recording, last_fetched>>
    /\ UNCHANGED <<coordinator_vars, query_vars, utcnow, posts>>

\* ------------------------------------------------ scheduler.start_scheduler
\* config.scheduler.interval_minutes: minutes between two firings of the timer
interval_minutes == 60

\* the amounts by which the clock is seen to advance
TimeSteps == {10, 50, 60, 600}

\* APScheduler submits a run of the job while fewer than max_instances run
may_submit_always(running) == TRUE

may_submit(running) == running < max_instances

\* wait_time = cooldown_seconds - time_since_last
no_remainder(elapsed) == 0

remainder(elapsed) == cooldown_seconds - elapsed

\* timeout_seconds = (config.scheduler.interval_minutes * 60) - 30
timeout_seconds_unbuffered == interval_minutes * 60

timeout_seconds == (interval_minutes * 60) - buffer_seconds

\* asyncio.create_task(run_scrape_job(logger)) under wait_for(.., timeout_seconds)
CreateTask ==
    /\ job' = "running"
    /\ timeout_left' = timeout_seconds
    /\ scrape_task' = "sync"
    /\ retry_count' = 0
    /\ retry_left' = 0
    /\ caught' = FALSE
    /\ no_engine' = FALSE
    /\ result' = "None"

\* The interval timer fires.  With a run of the job in progress the firing is
\* dropped (EVENT_JOB_MAX_INSTANCES, handle_max_instances logs the warning);
\* otherwise run_scrape_job_with_cooldown starts and sleeps for the rest of
\* the cooldown or creates the task at once.
Trigger ==
    /\ IF may_submit(instances)
       THEN /\ instances' = instances + 1
            /\ trigger' = "started"
            /\ IF time_since_last # None /\ time_since_last < cooldown_seconds
               THEN /\ job' = "cooldown"
                    /\ wait_time' = remainder(time_since_last)
                    /\ UNCHANGED <<timeout_left, scrape_task, retry_count, retry_left,
                                   caught, no_engine, result>>
               ELSE /\ CreateTask
                    /\ UNCHANGED wait_time
       ELSE /\ trigger' = "skipped"
            /\ UNCHANGED <<instances, job, wait_time, timeout_left, scrape_task,
                           retry_count, retry_left, caught, no_engine, result>>
    /\ UNCHANGED <<program_vars, time_since_last>>

\* asyncio.sleep(wait_time) is over
CooldownOver ==
    /\ job = "cooldown"
    /\ wait_time = 0
    /\ CreateTask
    /\ trigger' = "none"
    /\ UNCHANGED <<program_vars, instances, time_since_last, wait_time>>

\* timeout_left once the deadline is behind
Overdue == 0 - 1

\* the timers the event loop can serve: none while the task keeps the loop
timers ==
    IF scrape_task = "notify" THEN {}
    ELSE (IF job = "cooldown" THEN {wait_time} ELSE {})
            \cup (IF job = "running" THEN {timeout_left} ELSE {})
            \cup (IF scrape_task = "retry_sleep" THEN {retry_left} ELSE {})

\* time passes, up to the next timer that is due
Advance(d) ==
    /\ \A t \in timers : d <= t
    /\ time_since_last' =
          IF time_since_last = None THEN None ELSE Min(MaxElapsed, time_since_last + d)
    /\ wait_time' = IF job = "cooldown" THEN wait_time - d ELSE wait_time
    /\ timeout_left' =
          IF job # "running" THEN timeout_left
          ELSE IF timeout_left = Overdue \/ timeout_left < d THEN Overdue
          ELSE timeout_left - d
    /\ retry_left' = IF scrape_task = "retry_sleep" THEN retry_left - d ELSE retry_left
    /\ trigger' = "none"
    /\ UNCHANGED <<program_vars, instances, job, scrape_task, retry_count, caught,
                   no_engine, result>>

\* ----------------------------------------- run_scrape_job under the coordinator
\* The positions of the task: "sync" (lines 24-34) and "check" (lines 37-38,
\* up to the notifications) are suspended in awaits; "notify" is
\* notify_new_releases, synchronous calls (requests.post, time.sleep) that keep
\* the event loop; "finally" is await db_client.cleanup() after the try block
\* ended normally; "retry_sleep" is asyncio.sleep(retry_delay).
retry_delay == 60

retry_allowed_always(count) == TRUE

retry_allowed(count) == count < max_retries

\* sync_from_anilist returns
AttemptSync ==
    /\ scrape_task = "sync"
    /\ scrape_task' = "check"
    /\ trigger' = "none"
    /\ UNCHANGED <<program_vars, instances, job, time_since_last, wait_time,
                   timeout_left, retry_count, retry_left, caught, no_engine, result>>

\* an exception inside sync_from_anilist: except Exception (sync.py 57-60) logs
\* it and the method returns
AttemptSyncCaught ==
    /\ scrape_task = "sync"
    /\ scrape_task' = "check"
    /\ caught' = TRUE
    /\ trigger' = "none"
    /\ UNCHANGED <<program_vars, instances, job, time_since_last, wait_time,
                   timeout_left, retry_count, retry_left, no_engine, result>>

\* check_for_updates has fetched and stored the counts: with announcements
\* queued it goes on to the notifier, without it returns
AttemptCheck ==
    /\ scrape_task = "check"
    /\ scrape_task' \in {"notify", "finally"}
    /\ trigger' = "none"
    /\ UNCHANGED <<program_vars, instances, job, time_since_last, wait_time,
                   timeout_left, retry_count, retry_left, caught, no_engine, result>>

\* an exception inside check_for_updates, for instance get_all_tracked_media
\* failing: except Exception (tracker.py 168-176) logs it and the method returns
AttemptCheckCaught ==
    /\ scrape_task = "check"
    /\ scrape_task' = "finally"
    /\ caught' = TRUE
    /\ trigger' = "none"
    /\ UNCHANGED <<program_vars, instances, job, time_since_last, wait_time,
                   timeout_left, retry_count, retry_left, no_engine, result>>

\* notify_new_releases returns
AttemptNotify ==
    /\ scrape_task = "notify"
    /\ scrape_task' = "finally"
    /\ trigger' = "none"
    /\ UNCHANGED <<program_vars, instances, job, time_since_last, wait_time,
                   timeout_left, retry_count, retry_left, caught, no_engine, result>>

\* finally: await db_client.cleanup() of every level of the recursion.  cleanup
\* reads db_connections.engine, which exists once the client ran a query: for
\* a db_client without it the finally clause raises AttributeError and the task
\* ends with that exception.
ended(without_engine) == IF without_engine THEN "raised" ELSE "returned"

\* db_client.cleanup() is over and run_scrape_job returns
AttemptReturns ==
    /\ scrape_task = "finally"
    /\ scrape_task' = ended(no_engine)
    /\ trigger' = "none"
    /\ UNCHANGED <<program_vars, instances, job, time_since_last, wait_time,
                   timeout_left, retry_count, retry_left, caught, no_engine, result>>

\* An exception outside the two methods (the constructors of lines 30, 33 and
\* 37) reaches except Exception of run_scrape_job; the db_client of the attempt
\* has created its engine or not (line 33, or line 37 after a sync that was
\* skipped).  After the last retry the function returns False.
AttemptRaises ==
    /\ scrape_task \in {"sync", "check"}
    /\ \E engine \in BOOLEAN : no_engine' = (no_engine \/ ~ engine)
    /\ IF retry_allowed(retry_count)
       THEN /\ scrape_task' = "retry_sleep"
            /\ retry_left' = retry_delay
            /\ UNCHANGED result
       ELSE /\ scrape_task' = ended(no_engine')
            /\ result' = "False"
            /\ UNCHANGED retry_left
    /\ trigger' = "none"
    /\ UNCHANGED <<program_vars, instances, job, time_since_last, wait_time,
                   timeout_left, retry_count, caught>>

\* return await run_scrape_job(logger, retry_count + 1): the next attempt runs
\* inside the task that wait_for bounds, no deadline is set for it
RetryAttemptWithOwnDeadline ==
    /\ scrape_task = "retry_sleep"
    /\ retry_left = 0
    /\ scrape_task' = "sync"
    /\ retry_count' = retry_count + 1
    /\ caught' = FALSE
    /\ trigger' = "none"
    /\ timeout_left' = timeout_seconds
    /\ UNCHANGED <<program_vars, instances, job, time_since_last, wait_time,
                   retry_left, no_engine, result>>

RetryAttempt ==
    /\ scrape_task = "retry_sleep"
    /\ retry_left = 0
    /\ scrape_task' = "sync"
    /\ retry_count' = retry_count + 1
    /\ caught' = FALSE
    /\ trigger' = "none"
    /\ UNCHANGED <<program_vars, instances, job, time_since_last, wait_time,
                   timeout_left, retry_left, no_engine, result>>

\* wait_for returns the result of the task: "Scrape completed successfully"
ScrapeCompleted ==
    /\ job = "running"
    /\ scrape_task = "returned"
    /\ job' = "completed"
    /\ trigger' = "none"
    /\ UNCHANGED <<program_vars, instances, time_since_last, wait_time, timeout_left,
                   scrape_task, retry_count, retry_left, caught, no_engine, result>>

\* wait_for raises the exception the task ended with: the run ends at line 100,
\* handle_job_error logs it, last_job_end_time is not assigned
JobError ==
    /\ job = "running"
    /\ scrape_task = "raised"
    /\ job' = "none"
    /\ scrape_task' = "none"
    /\ instances' = instances - 1
    /\ trigger' = "none"
    /\ UNCHANGED <<program_vars, time_since_last, wait_time, timeout_left, retry_count,
                   retry_left, caught, no_engine, result>>

\* The timeout of wait_for fires while the task is suspended in an await:
\* wait_for cancels the task and waits for it to end.  In sync_from_anilist
\* the list queries come before the first call of the ledger, so a task
\* cancelled there may hold a db_client that has not created its engine; in
\* check_for_updates and after it the engine of the attempt exists.
ScrapeTimedOut ==
    /\ job = "running"
    /\ timeout_left \in {0, Overdue}
    /\ scrape_task \in {"sync", "check", "finally", "retry_sleep"}
    /\ scrape_task' = "cancelling"
    /\ \E engine \in BOOLEAN :
          no_engine' = (no_engine \/ (scrape_task = "sync" /\ ~ engine))
    /\ trigger' = "none"
    /\ UNCHANGED <<program_vars, instances, job, time_since_last, wait_time,
                   timeout_left, retry_count, retry_left, caught, result>>

\* CancelledError travels up the frames of run_scrape_job; except Exception
\* does not catch it and every finally clause awaits db_client.cleanup().  With
\* every engine in place the task ends cancelled: wait_for raises TimeoutError,
\* "CANCELLING TASK" is logged, scrape_task.cancel() and the second wait_for
\* find the task done.  A finally clause that raises replaces the
\* CancelledError, the task ends with that exception and wait_for raises it.
TaskCancelled ==
    /\ scrape_task = "cancelling"
    /\ IF no_engine
       THEN scrape_task' = "raised" /\ UNCHANGED job
       ELSE scrape_task' = "cancelled" /\ job' = "timed_out"
    /\ trigger' = "none"
    /\ UNCHANGED <<program_vars, instances, time_since_last, wait_time, timeout_left,
                   retry_count, retry_left, caught, no_engine, result>>

\* "Job completed in ...", last_job_end_time = time.time(), the run is over
JobEnd ==
    /\ job \in {"completed", "timed_out"}
    /\ job' = "none"
    /\ scrape_task' = "none"
    /\ time_since_last' = 0
    /\ instances' = instances - 1
    /\ trigger' = "none"
    /\ UNCHANGED <<program_vars, wait_time, timeout_left, retry_count, retry_left,
                   caught, no_engine, result>>

CoordinatorNext ==
    \/ Trigger
    \/ CooldownOver
    \/ \E d \in TimeSteps : Advance(d)
    \/ AttemptSync
    \/ AttemptSyncCaught
    \/ AttemptCheck
    \/ AttemptCheckCaught
    \/ AttemptNotify
    \/ AttemptReturns
    \/ AttemptRaises
    \/ RetryAttempt
    \/ ScrapeCompleted
    \/ JobError
    \/ ScrapeTimedOut
    \/ TaskCancelled
    \/ JobEnd

\* ------------------------------------------------------------ specifications
ReleaseNumbers == {float(n) : n \in Numbers}

Start ==
    /\ tracked = {}
    /\ user_progress = [m \in MediaIds |-> None]
    /\ last_checked_count = [m \in MediaIds |-> None]
    /\ releases = {}
    /\ next_release_id = 1
    /\ pending = [pr \in MediaIds \X ReleaseNumbers |-> 0]
    /\ pc = "idle"
    /\ cycles = 0
    /\ webhook_url \in BOOLEAN
    /\ media_list = <<>>
    /\ i = 0
    /\ notifications = <<>>
    /\ updates_to_make = <<>>
    /\ total_count = None
    /\ sent = [m \in MediaIds |-> [n \in Numbers |-> 0]]
    /\ failed_batch = {}
    /\ baseline = [m \in MediaIds |-> None]
    /\ last_fetched = [m \in MediaIds |-> None]
    /\ last_op = NoOp
    /\ utcnow = 0
    /\ posts = <<>>
    /\ cancelled = FALSE
    /\ query = NoQuery
    /\ lists = NoLists
    /\ instances = 0
    /\ trigger = "none"
    /\ job = "none"
    /\ time_since_last = None
    /\ wait_time = 0
    /\ timeout_left = 0
    /\ scrape_task = "none"
    /\ retry_count = 0
    /\ retry_left = 0
    /\ caught = FALSE
    /\ no_engine = FALSE
    /\ result = "None"

Init == Start /\ recording = FALSE

InitRecording == Start /\ recording = TRUE

LedgerNext ==
    \/ \E m \in MediaIds, n \in ReleaseNumbers : AddReleaseSelect(m, n)
    \/ \E m \in MediaIds, n \in ReleaseNumbers : AddReleaseCommit(m, n)
    \/ \E id \in 1 .. MaxReleaseId : MarkAsNotified(id)
    \/ \E m \in MediaIds : DeleteMedia(m)
    \/ \E m \in MediaIds : SubscribeToMedia(m)

\* the clock read by datetime.utcnow() moves on
Tick ==
    /\ utcnow < MaxNow
    /\ utcnow' = utcnow + 1
    /\ UNCHANGED <<ledger_vars, call_vars, cycle_vars, history_vars, last_op,
                   coordinator_vars, posts, cancelled, query_vars, lists>>

ClockedLedgerNext ==
    \/ LedgerNext
    \/ Tick

CycleNext ==
    \/ StartCycle
    \/ SyncFromAnilist
    \/ SyncFails
    \/ CleanupFetchLists
    \/ CleanupFinishedSeries
    \/ CheckStart
    \/ CheckMedia
    \/ CheckDone
    \/ UpdateCount
    \/ NotifyStart
    \/ SendBatch
    \/ CancelCycle

\* the daemon: cycles of run_scrape_job, one at a time
Next == CycleNext

Spec == Init /\ [][Next]_vars

\* the daemon, with the history of its fetches, stored counts and sends recorded
RecordingSpec == InitRecording /\ [][Next]_vars

\* the ledger under the calls of concurrent tasks and processes
\* the ledger alone: none of its operations reads the configuration, which is
\* taken with the webhook set
InitLedger == Init /\ webhook_url

LedgerSpec == InitLedger /\ [][LedgerNext]_vars

\* the ledger with the clock of its timestamps
ClockedLedgerSpec == InitLedger /\ [][ClockedLedgerNext]_vars

\* The dispatch of a cycle alone: check_for_updates at line 155, after item 1,
\* whose stored count was 1.0, was found at the count n + 1 and the count was
\* stored; the numbers 2 .. n + 1 are queued.
InitNotifier ==
    /\ \E n \in 0 .. MaxReleases :
          /\ notifications = [k \in 1 .. n |-> [number |-> float(k + 1), media_id |-> 1]]
          /\ last_checked_count = [m \in MediaIds |-> IF m = 1 THEN float(n + 1) ELSE None]
          /\ total_count = float(n + 1)
    /\ tracked = {1}
    /\ user_progress = [m \in MediaIds |-> IF m = 1 THEN float(1) ELSE None]
    /\ media_list = <<[id |-> 1, user_progress |-> float(1), last_checked_count |-> float(1)]>>
    /\ releases = {}
    /\ next_release_id = 1
    /\ pending = [pr \in MediaIds \X ReleaseNumbers |-> 0]
    /\ pc = "update"
    /\ cycles = 1
    /\ webhook_url \in BOOLEAN
    /\ i = 2
    /\ updates_to_make = <<>>
    /\ sent = [m \in MediaIds |-> [n \in Numbers |-> 0]]
    /\ failed_batch = {}
    /\ baseline = [m \in MediaIds |-> None]
    /\ last_fetched = [m \in MediaIds |-> None]
    /\ recording = FALSE
    /\ last_op = NoOp
    /\ utcnow = 0
    /\ posts = <<>>
    /\ cancelled = FALSE
    /\ query = NoQuery
    /\ lists = NoLists
    /\ instances = 0
    /\ trigger = "none"
    /\ job = "none"
    /\ time_since_last = None
    /\ wait_time = 0
    /\ timeout_left = 0
    /\ scrape_task = "none"
    /\ retry_count = 0
    /\ retry_left = 0
    /\ caught = FALSE
    /\ no_engine = FALSE
    /\ result = "None"

NotifierNext ==
    \/ NotifyStart
    \/ SendBatch

\* the notifier, handed sequences of up to MaxReleases announcements
NotifierSpec == InitNotifier /\ [][NotifierNext]_vars

\* the timer, the job it runs and the task of the job, with time passing
CoordinatorSpec == Init /\ [][CoordinatorNext]_vars

\* One request after the other.  The event loop resumes a coroutine whose
\* await is over, the catalog answers or the 30 seconds of the request run
\* out, and a sleep ends: a call in progress takes its next step.
QuerySpec == Init /\ [][QueryNext]_vars /\ WF_vars(QueryStep)

\* ------------------------------------------------------------------ properties
stored(media_id, n) ==
    {r \in releases : r.media_id = media_id /\ r.number = float(n)}

queued(media_id, n) ==
    Cardinality({k \in 1 .. Len(notifications) :
                    notifications[k].media_id = media_id /\ notifications[k].number = float(n)})

\* C1: once a cycle is over, every release it detected for a tracked item and
\* that no later cycle will detect again (its number lies between the first
\* stored count, exclusive, and the stored count of the item, inclusive) was
\* delivered in a successful batch send or is stored in the ledger as an
\* un-notified release.
AtLeastOnceAnnouncement ==
    pc = "idle" =>
        \A m \in tracked : \A n \in Numbers :
            (baseline[m] # None /\ baseline[m] < float(n) /\ float(n) <= last_checked_count[m])
                => \/ sent[m][n] >= 1
                   \/ stored(m, n) \cap get_unnotified_releases # {}

\* C2: the ledger holds at most one release per (media_id, number).
OneRecordPerPair ==
    \A r1 \in releases : \A r2 \in releases :
        (r1.media_id = r2.media_id /\ r1.number = r2.number) => r1 = r2

\* C2, its case: a commit for a pair that is already stored was refused.
DuplicateInsertRefused ==
    /\ last_op.op = "raised"
    /\ \E r \in releases : r.media_id = last_op.media_id /\ r.number = last_op.number

\* C3: of two add_release calls racing on one pair exactly one row is stored
\* and no call ends in an error.
RacingCallIsNoOp ==
    /\ \A m \in MediaIds : \A n \in Numbers : Cardinality(stored(m, n)) <= 1
    /\ last_op.op # "raised"

\* C4: an add_release that found no row and commits with nothing in between
\* returns (row, True) and stores the row; an add_release for the same pair
\* right after a call that created the row returns that row with
\* wasCreated = False and changes no row of the ledger.
AddReleaseTwice ==
    [][/\ (/\ last_op.op = "select"
           /\ pending # pending'
           /\ pending'[<<last_op.media_id, last_op.number>>] < pending[<<last_op.media_id, last_op.number>>])
              => /\ last_op'.op = "returned"
                 /\ last_op'.created
                 /\ \E r \in releases' \ releases :
                       /\ r.id = last_op'.id
                       /\ r.media_id = last_op.media_id
                       /\ r.number = last_op.number
       /\ (/\ last_op.op = "returned"
           /\ last_op.created
           /\ last_op'.op \in {"returned", "raised"}
           /\ last_op'.media_id = last_op.media_id
           /\ last_op'.number = last_op.number
           /\ pending' = pending)
              => /\ last_op'.op = "returned"
                 /\ last_op'.id = last_op.id
                 /\ ~ last_op'.created
                 /\ releases' = releases
                 /\ Cardinality({r \in releases : /\ r.media_id = last_op.media_id
                                                  /\ r.number = last_op.number}) = 1]_vars

\* C4, its case: the second of two calls in sequence for one pair has returned.
SecondCallReturned ==
    /\ last_op.op = "returned"
    /\ last_op.second
    /\ ~ last_op.created
    /\ \E r \in releases : r.id = last_op.id

\* C5: a release that is notified stays notified for as long as it exists.
NotifiedNeverReverts ==
    [][\A r \in releases : \A r2 \in releases' :
          (r.id = r2.id /\ r.notified) => r2.notified]_vars

\* C5, its case: a release has been marked notified.
SomeReleaseNotified == \E r \in releases : r.notified

\* C6: every release of a batch whose send failed is returned by
\* get_unnotified_releases afterwards.
FailedBatchStaysPending ==
    \A d \in failed_batch : stored(d[1], d[2]) \cap get_unnotified_releases # {}

\* C7: once a cycle is over, every release delivered in a successful batch
\* send has a record that is marked notified.  (The other half of the claim,
\* no mark without a successful send, is about marks made by the dispatch;
\* notify_new_releases makes none.)
DeliveredBatchIsMarked ==
    pc = "idle" =>
        \A m \in tracked : \A n \in Numbers :
            sent[m][n] >= 1 => \E r \in stored(m, n) : r.notified

RangeRecordedAndQueued ==
    pc = "update" =>
        \A k \in 1 .. Len(updates_to_make) : \A j \in 1 .. Len(media_list) :
            LET media == media_list[j]
                new_count == updates_to_make[k][2]
            IN  (media.id = updates_to_make[k][1] /\ media.last_checked_count # None) =>
                    \A n \in Numbers :
                        IF media.last_checked_count < float(n) /\ float(n) <= new_count
                        THEN queued(media.id, n) = 1 /\ stored(media.id, n) # {}
                        ELSE queued(media.id, n) = 0

\* C10: once the cycles are over, for an item whose usable fetched counts never
\* decreased, the numbers of its release records are the whole numbers in
\* (first stored count, last fetched count].
RecordedNumbersAreTheGap ==
    pc = "idle" =>
        \A m \in tracked :
            (baseline[m] # None /\ last_fetched[m] \notin {None, Decreased}) =>
                {r.number : r \in {x \in releases : x.media_id = m}}
                    = {float(n) : n \in {k \in Numbers :
                                            baseline[m] < float(k) /\ float(k) <= last_fetched[m]}}

\* C11: a pass of the loop whose fresh count is usable and not above the
\* stored count of the item changes nothing: no row of the ledger, no queued
\* announcement, no queued count update; and a count update is only ever
\* queued for an item with a count above the stored one (or with none stored).
UnchangedCountMutatesNothing ==
    [][/\ (pc = "check" /\ i <= Len(media_list) /\ i' = i + 1) =>
              LET media == media_list[i]
              IN  (/\ truthy(media.user_progress)
                   /\ truthy(total_count')
                   /\ media.last_checked_count # None
                   /\ total_count' <= media.last_checked_count)
                      => /\ notifications' = notifications
                         /\ updates_to_make' = updates_to_make
                         /\ ledger_vars' = ledger_vars
       /\ \A k \in 1 .. Len(updates_to_make) : \A j \in 1 .. Len(media_list) :
              media_list[j].id = updates_to_make[k][1] =>
                  \/ media_list[j].last_checked_count = None
                  \/ updates_to_make[k][2] > media_list[j].last_checked_count]_vars

\* C11, its case: the pass just made fetched a usable count that is not above
\* the stored count of its item.
UnchangedCountSeen ==
    /\ pc = "check"
    /\ i > 1
    /\ truthy(media_list[i - 1].user_progress)
    /\ media_list[i - 1].last_checked_count # None
    /\ truthy(total_count)
    /\ total_count <= media_list[i - 1].last_checked_count

\* C12: a pass of the loop whose fetch failed or gave no usable count (None
\* or 0) changes nothing: no row of the ledger, no queued announcement, no
\* queued count update; no queued count update ever carries such a count, so
\* the stored count is not replaced by it.
UnavailableCountMutatesNothing ==
    [][/\ (pc = "check" /\ i <= Len(media_list) /\ i' = i + 1) =>
              ((truthy(media_list[i].user_progress) /\ ~ truthy(total_count'))
                  => /\ notifications' = notifications
                     /\ updates_to_make' = updates_to_make
                     /\ ledger_vars' = ledger_vars)
       /\ \A k \in 1 .. Len(updates_to_make) : truthy(updates_to_make[k][2])]_vars

\* C12, its case: the pass just made had no count for an item that has no
\* stored count yet (a count of zero would have been stored as its start).
UnavailableCountSeen ==
    /\ pc = "check"
    /\ i > 1
    /\ truthy(media_list[i - 1].user_progress)
    /\ media_list[i - 1].last_checked_count = None
    /\ total_count = None

\* C13: at most one run of the job exists at any time; a firing of the interval
\* timer that finds a run in progress (in its cooldown sleep, its attempts and
\* retry sleeps, or after its timeout) is dropped and changes nothing, and a
\* run begins only in the step of a firing that was accepted, so that no
\* dropped firing runs later.
OneCycleAtATime ==
    [][/\ instances' <= 1
       /\ (trigger' # "none" /\ job # "none") =>
              /\ trigger' = "skipped"
              /\ UNCHANGED <<instances, job, scrape_task, time_since_last, wait_time,
                             timeout_left, retry_count, retry_left, caught, no_engine, result>>
       /\ (job = "none" /\ job' # "none") => (trigger' = "started" /\ instances = 0)]_vars

TriggerDroppedDuringRetry == trigger = "skipped" /\ scrape_task = "retry_sleep"

\* C14: a run that starts less than 60 seconds after the recorded end of the
\* previous run sleeps for 60 minus the elapsed time before it creates the
\* task, and creates it when exactly 60 seconds have elapsed; a run with no
\* recorded end, or with 60 seconds or more elapsed, creates the task at once;
\* so the task is never created less than 60 seconds after the recorded end.
CooldownIsKept ==
    [][/\ (trigger' = "started" /\ time_since_last # None /\ time_since_last < 60) =>
              /\ job' = "cooldown"
              /\ wait_time' = 60 - time_since_last
              /\ scrape_task' = scrape_task
       /\ (trigger' = "started" /\ (time_since_last = None \/ time_since_last >= 60)) =>
              job' = "running"
       /\ (job = "cooldown" /\ job' = "running") => time_since_last = 60
       /\ (job # "running" /\ job' = "running") =>
              (time_since_last = None \/ time_since_last >= 60)]_vars

CooldownOfFiftySeconds ==
    job = "cooldown" /\ trigger = "started" /\ time_since_last = 10 /\ wait_time = 50

\* C15: the task of a run is created under a deadline of the interval minus 30
\* seconds, and once the deadline is behind a task that has not returned does
\* nothing more than be cancelled: the run ends as timed out, never as
\* completed.
DeadlineEndsTheCycle ==
    [][/\ (job # "running" /\ job' = "running") =>
              timeout_left' = (interval_minutes * 60) - 30
       /\ (job = "running" /\ timeout_left = Overdue
              /\ scrape_task \notin {"returned", "raised"}) =>
              /\ job' \in {"running", "timed_out"}
              /\ scrape_task' \in {scrape_task, "cancelling", "cancelled"}]_vars

\* C16: an attempt that fails with an exception is followed by a retry only
\* while fewer than 3 retries were made, every retry starts after a sleep of 60
\* seconds that has run out, and the count of retries never exceeds 3; an
\* attempt that fails after the third retry, and an attempt that reaches its
\* end, end the task.
BoundedRetry ==
    [][/\ retry_count' <= 3
       /\ (scrape_task \in {"sync", "check"} /\ scrape_task' = "retry_sleep") =>
              (retry_count < 3 /\ retry_left' = 60 /\ retry_count' = retry_count)
       /\ (scrape_task = "retry_sleep" /\ scrape_task' \notin {"retry_sleep", "cancelling"}) =>
              (scrape_task' = "sync" /\ retry_left = 0 /\ retry_count' = retry_count + 1)
       /\ (scrape_task = "finally") =>
              scrape_task' \in {"finally", "returned", "raised", "cancelling"}
       /\ (scrape_task \in {"returned", "raised", "cancelled"}) =>
              scrape_task' \in {scrape_task, "none"}]_vars

ThirdRetryFailed ==
    retry_count = 3 /\ scrape_task \in {"returned", "raised"} /\ ~ caught /\ job = "running"
        /\ timeout_left = timeout_seconds - 180

\* C17: an exception raised while the attempt synchronises the tracked list or
\* checks for releases ends the attempt and starts the retry policy: the task
\* sleeps before a retry or, after the third retry, ends.
CycleExceptionIsRetried ==
    [][(scrape_task \in {"sync", "check"} /\ ~ caught /\ caught') =>
           \/ scrape_task' = "retry_sleep"
           \/ retry_count = 3 /\ scrape_task' \in {"returned", "raised"}]_vars

\* C18: a release record that is notified stays as it is, its notified
\* timestamp included, for as long as it exists; so mark_as_notified on a
\* notified record changes nothing.
NotifiedRecordIsFinal ==
    [][\A r \in releases : \A r2 \in releases' :
          (r.notified /\ r2.id = r.id) => r2 = r]_vars

\* C19: after every operation of the ledger each release record belongs to a
\* tracked item that exists, and a release record that is gone went with the
\* deletion of its item.
ReleasesFollowTheirItem ==
    [][/\ \A r \in releases' : r.media_id \in tracked'
       /\ \A r \in releases :
             (\A r2 \in releases' : r2.id # r.id) =>
                 (r.media_id \in tracked /\ r.media_id \notin tracked')]_vars

\* C20: when the loop over the items is done, for every item that had no stored
\* count and whose fresh count is usable, the count is queued to be stored, no
\* announcement is queued for the item, and the item has exactly one release
\* record, at the fresh count.
BaselineIsSilent ==
    pc = "update" =>
        \A k \in 1 .. Len(updates_to_make) : \A j \in 1 .. Len(media_list) :
            LET media == media_list[j]
                new_count == updates_to_make[k][2]
            IN  (media.id = updates_to_make[k][1] /\ media.last_checked_count = None) =>
                    /\ \A n \in Numbers : queued(media.id, n) = 0
                    /\ {r.number : r \in {x \in releases : x.media_id = media.id}} = {new_count}
                    /\ Cardinality({x \in releases : x.media_id = media.id}) = 1

\* C21: a pass of the loop whose fresh count is usable leaves the item with
\* the fresh count as its observed count at the end of the cycle: either the
\* stored count is the fresh count already, or the pass queues the update that
\* stores it.
ObservedCountFollowsFetch ==
    [][(pc = "check" /\ i <= Len(media_list) /\ i' = i + 1) =>
          LET media == media_list[i]
          IN  (truthy(media.user_progress) /\ truthy(total_count')) =>
                  \/ media.last_checked_count = total_count'
                  \/ /\ Len(updates_to_make') = Len(updates_to_make) + 1
                     /\ updates_to_make'[Len(updates_to_make')] = <<media.id, total_count'>>]_vars

\* C22: a pass that finds an increase queues one announcement for each whole
\* number above the stored count up to the floor of the fresh count, in
\* order, and queues the exact fresh count to be stored; and whatever count
\* was stored before the stored one, the numbers announced on the way to the
\* stored count followed by those announced now are the whole numbers between
\* that count and the fresh one, each once, also when the stored count is
\* fractional.
FractionalCountsKeepTheNumbers ==
    [][(pc = "check" /\ i <= Len(media_list) /\ i' = i + 1) =>
          LET media == media_list[i]
              last_known == media.last_checked_count
              added == SubSeq(notifications', Len(notifications) + 1, Len(notifications'))
              whole(a, b) == {n \in Numbers : a < float(n) /\ float(n) <= b}
          IN  (/\ truthy(media.user_progress) /\ truthy(total_count')
               /\ last_known # None /\ total_count' > last_known) =>
                  /\ \A k \in 1 .. Len(added) :
                        /\ added[k].media_id = media.id
                        /\ added[k].number = float(int(last_known) + k)
                  /\ Len(added) = int(total_count') - int(last_known)
                  /\ {added[k].number : k \in 1 .. Len(added)}
                        = {float(n) : n \in whole(last_known, total_count')}
                  /\ updates_to_make' = Append(updates_to_make, <<media.id, total_count'>>)
                  /\ \A a \in Counts : a <= last_known =>
                        LET before == new_numbers(a, last_known)
                        IN  /\ \A k \in 1 .. Len(before) : \A l \in 1 .. Len(added) :
                                  float(before[k]) < added[l].number
                            /\ {float(before[k]) : k \in 1 .. Len(before)}
                                  \cup {added[l].number : l \in 1 .. Len(added)}
                                  = {float(n) : n \in whole(a, total_count')}]_vars

FractionalStoredCountAnnounced ==
    /\ pc = "check" /\ i > 1
    /\ media_list[i - 1].last_checked_count # None
    /\ media_list[i - 1].last_checked_count % 2 = 1
    /\ truthy(media_list[i - 1].user_progress)
    /\ total_count # None /\ total_count > media_list[i - 1].last_checked_count
    /\ notifications # <<>>
    /\ notifications[Len(notifications)].media_id = media_list[i - 1].id

\* the announcements of the batches posted so far, in the order of the posts
RECURSIVE posted(_)
posted(ps) == IF ps = <<>> THEN <<>> ELSE Head(ps).batch \o posted(Tail(ps))

\* C23, as claimed: a dispatch of a non-empty sequence posts all of it (see
\* BatchesPartitionTheReleases for the batches); only a dispatch of the empty
\* sequence ends without a post.
AnySequenceIsPosted ==
    [][/\ (pc = "notify" /\ pc' = "idle") => posted(posts') = notifications
       /\ (pc = "update" /\ updates_to_make = <<>> /\ pc' = "idle") =>
              (notifications = <<>> /\ posts' = <<>>)]_vars

\* C23, amended: with a webhook configured, the dispatch of a non-empty
\* sequence enters the loop of notify_new_releases, and every pass of the loop
\* posts one more batch; each batch posted has between 1 and 10 entries and
\* every batch but the last has 10; the entries posted so far are a prefix of
\* the sequence, all of it when the loop ends and less while it goes on; a
\* dispatch of the empty sequence, or without a webhook, posts nothing.
BatchesPartitionTheReleases ==
    [][/\ pc = "notify" =>
              /\ Len(posts') = Len(posts) + 1
              /\ \A k \in 1 .. Len(posts') :
                    /\ Len(posts'[k].batch) >= 1
                    /\ Len(posts'[k].batch) <= 10
                    /\ k < Len(posts') => Len(posts'[k].batch) = 10
              /\ posted(posts') = SubSeq(notifications, 1, Len(posted(posts')))
              /\ pc' = "idle" => posted(posts') = notifications
              /\ pc' = "notify" => Len(posted(posts')) < Len(notifications)
       /\ (pc = "update" /\ updates_to_make = <<>>) =>
              IF notifications # <<>> /\ webhook_url
              THEN pc' = "notify" /\ posts' = <<>>
              ELSE pc' = "idle" /\ posts' = <<>>]_vars

ThreeBatchesPosted ==
    pc = "idle" /\ Len(posts) = 3 /\ Len(posts[3].batch) = 1 /\ Len(posts[1].batch) = 10

\* C24: a post that fails changes nothing in the course of the dispatch: the
\* loop goes on to the next batch when there is one and the dispatch ends in
\* the ordinary way when there is none, so that the batches after a failed
\* one are still posted, in order, and the whole sequence has been posted
\* when the dispatch ends.
FailedPostIsNotEscalated ==
    [][(pc = "notify" /\ Len(posts') = Len(posts) + 1 /\ ~ posts'[Len(posts')].ok) =>
          /\ IF i + 10 < Len(notifications)
             THEN /\ pc' = "notify"
                  /\ i' = i + 10
                  /\ notifications' = notifications
             ELSE pc' = "idle"
          /\ pc' = "idle" =>
                /\ posted(posts') = notifications
                /\ cycles' = cycles]_vars

BatchesPostedAfterAFailedOne ==
    pc = "idle" /\ Len(posts) = 3 /\ ~ posts[1].ok /\ posts[2].ok /\ posts[3].ok

\* C25: a task cancelled at its deadline is not run again by the retry policy
\* (the count of retries stays and no attempt or retry sleep follows), and the
\* run ends as timed out: the cancelled task ends cancelled, never returned or
\* raised as a run that gave up does.
TimeoutIsNotRetried ==
    [][(scrape_task = "cancelling") =>
           /\ retry_count' = retry_count
           /\ scrape_task' \in {"cancelling", "cancelled"}
           /\ (scrape_task' = "cancelled" => job' = "timed_out")]_vars

\* C26: a task that gave up after its last retry ends without an exception and
\* its run is not reported as completed.
GivingUpIsNotCompleted ==
    (result = "False") => (scrape_task # "raised" /\ job # "completed")

\* C27: the coordinator moves from idle to the cooldown or to the running
\* task, from the cooldown to the running task, from the running task to one
\* outcome (completed or timed out) and from an outcome back to idle with the
\* end time of the run recorded.
CoordinatorStateMachine ==
    [][/\ (job = "none") => job' \in {"none", "cooldown", "running"}
       /\ (job = "cooldown") => job' \in {"cooldown", "running"}
       /\ (job = "running") => job' \in {"running", "completed", "timed_out"}
       /\ (job \in {"completed", "timed_out"}) =>
              (job' = job \/ (job' = "none" /\ time_since_last' = 0))]_vars

\* C28: a cycle is cancelled only where its task is suspended: the step that
\* cancels it sends no batch and writes no row, but for the one count update
\* in flight, which is stored whole or not at all; once cancelled the cycle
\* has nothing queued and does nothing more, and a cycle that reached the
\* notifier posts every announcement it queued.
CancelledCycleStops ==
    [][/\ (cancelled' /\ ~ cancelled) =>
              /\ posts' = posts
              /\ UNCHANGED <<tracked, user_progress, releases, next_release_id>>
              /\ \/ UNCHANGED last_checked_count
                 \/ /\ pc = "update"
                    /\ last_checked_count' =
                          [last_checked_count EXCEPT ![Head(updates_to_make)[1]] =
                              Head(updates_to_make)[2]]
              /\ pc' = "idle" /\ notifications' = <<>> /\ updates_to_make' = <<>>
       /\ (cancelled /\ cancelled') => UNCHANGED <<ledger_vars, cycle_vars, posts>>
       /\ (pc = "notify" /\ pc' # "notify") => posted(posts') = notifications]_vars

\* the first cycle was cancelled while it stored its count updates: one count
\* is stored, the other is not
CycleCancelledDuringUpdates ==
    /\ cancelled
    /\ cycles = 1
    /\ pc = "idle"
    /\ posts = <<>>
    /\ \E m, n \in tracked : last_checked_count[m] # None /\ last_checked_count[n] = None

\* C29: a request that is rate limited is retried a bounded number of times:
\* whatever the catalog answers, every call of _query ends.
RateLimitedQueryEnds ==
    (query.pos = "post") ~> (query.pos \in {"returned", "raised"})

\* C30: an item whose fetch failed or gave no count does not stop the cycle:
\* the pass over it queues nothing and the loop goes on with the next row, the
\* loop ends only behind the last row, and the count updates queued for the
\* other items are all carried out before the cycle goes on to the notifier.
FailedItemIsPassedOver ==
    [][/\ (pc = "check" /\ cancelled' = cancelled /\ i <= Len(media_list)
              /\ truthy(media_list[i].user_progress) /\ ~ truthy(total_count')) =>
              /\ pc' = "check" /\ i' = i + 1 /\ media_list' = media_list
              /\ UNCHANGED <<notifications, updates_to_make>>
       /\ (pc = "check" /\ pc' = "update") =>
              (i = Len(media_list) + 1 /\ UNCHANGED <<notifications, updates_to_make>>)
       /\ (pc = "update" /\ pc' # "update" /\ cancelled' = cancelled) =>
              updates_to_make = <<>>]_vars

\* the first of two rows gave no count, the second one has its update queued
SecondItemCheckedAfterFailedFirst ==
    /\ pc = "check"
    /\ Len(media_list) = 2
    /\ i = 3
    /\ truthy(media_list[1].user_progress)
    /\ media_list[1].last_checked_count = None
    /\ Len(updates_to_make) = 1
    /\ updates_to_make[1][1] = media_list[2].id

\* C31: a cleanup whose list query failed deletes no tracked item and no
\* release.
FailedListFetchDeletesNothing ==
    [][(pc = "cleanup_fetched" /\ pc' = "check_start"
           /\ ~ lists.fetched) =>
           (tracked' = tracked /\ releases' = releases)]_vars

\* the announcements of a cycle for one item, in their order
handed(media_id) == SelectSeq(notifications, LAMBDA a : a.media_id = media_id)

\* C32: when a cycle hands its announcements to the notifier, an item without
\* a stored count before the cycle has none, and an item whose stored count
\* the cycle has raised has exactly one for every whole number above the count
\* stored before the cycle and up to the count stored now, and no other.  The
\* count stored now is the count the next cycle starts from, so the numbers of
\* successive cycles join without a gap and without a repetition.
HandedNumbersAreTheGap ==
    (pc = "update" /\ updates_to_make = <<>>) =>
        \A j \in 1 .. Len(media_list) :
            LET media == media_list[j]
                before == media.last_checked_count
                now == last_checked_count[media.id]
                gap == {n \in 0 .. MaxCount : before < float(n) /\ float(n) <= now}
            IN  /\ (before = None) => handed(media.id) = <<>>
                /\ (before # None /\ now # before) =>
                      /\ now > before
                      /\ {handed(media.id)[k].number : k \in 1 .. Len(handed(media.id))} = {float(n) : n \in gap}
                      /\ Len(handed(media.id)) = Cardinality(gap)

\* a second cycle has raised a fractional stored count past the next whole
\* number and hands that number over
SecondCycleHandsTheGap ==
    /\ pc = "update" /\ updates_to_make = <<>>
    /\ cycles = 2
    /\ \E j \in 1 .. Len(media_list) :
          /\ media_list[j].last_checked_count = 1
          /\ last_checked_count[media_list[j].id] = 4
          /\ Len(handed(media_list[j].id)) = 2

\* C33: the deadline is set when the task of a run is created and by nothing
\* else: no attempt, retry sleep or retry renews it.  A retry starts only
\* before the deadline has passed, and once the task has been cancelled no
\* attempt, retry sleep or retry follows, in particular none after the run was
\* declared timed out.
DeadlineCoversTheRetries ==
    [][/\ (job = "running" /\ job' = "running") => timeout_left' <= timeout_left
       /\ (scrape_task = "retry_sleep" /\ scrape_task' = "sync") =>
              (job = "running" /\ timeout_left >= 0 /\ timeout_left' = timeout_left)
       /\ (scrape_task \in {"cancelling", "cancelled"}) =>
              scrape_task' \in {"cancelling", "cancelled", "raised", "none"}
       /\ (job = "timed_out") => (scrape_task = "cancelled" /\ job' \in {"timed_out", "none"})]_vars

\* the deadline passed during the sleep before the second retry: the run is
\* declared timed out with 10 seconds of the sleep left
TimedOutDuringRetryDelay ==
    /\ job = "timed_out"
    /\ scrape_task = "cancelled"
    /\ retry_count = 1
    /\ retry_left = 10
    /\ timeout_left = 0

\* C34: the count stored for an item never decreases while the item is
\* tracked: a step that leaves the item tracked leaves a stored count as it is
\* or raises it.
StoredCountNeverDecreases ==
    [][\A m \in MediaIds :
           (m \in tracked /\ m \in tracked' /\ last_checked_count[m] # None) =>
               last_checked_count'[m] >= last_checked_count[m]]_vars

\* a cycle fetched a count below the stored one and has ended: the stored
\* count is the higher one
RegressionSeenAndCountKept ==
    /\ pc = "update"
    /\ updates_to_make = <<>>
    /\ \E j \in 1 .. Len(media_list) :
          /\ j = i - 1
          /\ media_list[j].last_checked_count = 4
          /\ total_count = 1
          /\ last_checked_count[media_list[j].id] = 4

\* C35: the pass of the loop over an item without user progress (none, or 0)
\* fetches nothing and queues nothing; no announcement and no count update is
\* ever queued for such an item, and its stored count is never written.
NoProgressNoCheck ==
    [][/\ (pc = "check" /\ i <= Len(media_list) /\ cancelled' = cancelled
              /\ (media_list[i].user_progress = None \/ media_list[i].user_progress = 0)) =>
              /\ i' = i + 1
              /\ UNCHANGED <<total_count, notifications, updates_to_make, last_checked_count>>
       /\ \A k \in 1 .. Len(notifications') :
              user_progress'[notifications'[k].media_id] \notin {None, 0}
       /\ \A k \in 1 .. Len(updates_to_make') :
              user_progress'[updates_to_make'[k][1]] \notin {None, 0}
       /\ \A m \in MediaIds :
              (m \in tracked' /\ user_progress'[m] \in {None, 0}) =>
                  last_checked_count'[m] = last_checked_count[m]]_vars

\* the loop has passed over a tracked item without progress and without a
\* stored count, and has queued the first count of the other item
ItemWithoutProgressPassedOver ==
    /\ pc = "check"
    /\ Len(media_list) = 2
    /\ i = 3
    /\ media_list[1].user_progress = None
    /\ last_checked_count[media_list[1].id] = None
    /\ Len(updates_to_make) = 1
    /\ updates_to_make[1][1] = media_list[2].id

============================================================================
